---- MODULE Spec2Model ----
(***************************************************************************)
(* Gesture-controlled holographic globe (src/App.tsx).                     *)
(*                                                                         *)
(* Numbers are fixed point integers:                                       *)
(*   normalized image coordinates and scale : 1/1000         (milli)       *)
(*   rotation angles                         : 1/100000 rad                *)
(*   world position, mesh scales             : 1/1000000     (micro)       *)
(* Every landmark set used as input has an integral thumb-index distance,  *)
(* so the square root and the linear maps below are exact on them.         *)
(* HUD strings are written in English; the source shows them in Chinese.   *)
(***************************************************************************)
EXTENDS Integers, Sequences, FiniteSets, TLC

VARIABLES
    earthControl,   \* earthControl.current : EarthControlState (ControlState)
    smoothed,       \* transforms of group / earth / clouds / rings meshes
    elapsed,        \* state.clock.getElapsedTime(), in render ticks
    activeRegion,   \* React state written by setContinent / setActiveRegion
    handDetected,   \* React state written by setHandDetected
    gestureStatus,  \* React state written by setGestureStatus
    loading,        \* React state written by setLoading
    webcam,         \* position of the startWebcam() call
    pc,             \* position of every predictWebcam() call and its loop
    requestRef,     \* requestRef.current : which call's frame request it holds
    videoRef,       \* videoRef.current # null
    canvasRef,      \* canvasRef.current # null
    tornDown,       \* the effect cleanup of App has run
    result,         \* the detection result of the latest detectForVideo call
    theta,          \* argument of a stand-alone getRegionFromRotation call
    region          \* its return value

vars == <<earthControl, smoothed, elapsed, activeRegion, handDetected,
          gestureStatus, loading, webcam, pc, requestRef, videoRef,
          canvasRef, tornDown, result, theta, region>>

----------------------------------------------------------------------------
(* Bounds of the model *)

\* how many times the video element fires "loadeddata"
MaxLoads == 2

\* how many render ticks (useFrame callbacks) a behaviour contains
MaxRenderTicks == 2

\* how many render ticks a behaviour of the smoothing study contains
MaxSmoothTicks == 50

\* stand-alone region calls use angles theta + 2*PI*k with |k| <= MaxTurns
MaxTurns == 1

----------------------------------------------------------------------------
(* Program constants *)

\* Math.PI in units of 1/100000 rad, rounded so that 30 degrees is integral
PI == 314160

\* pinch threshold 0.05
PinchThreshold == 50

\* scale = clamp(0.5 + d * 10, 0.5, 3.5)
ScaleMin == 500
ScaleMax == 3500

\* visible height of the viewport at z = 0
vHeight == 4140

----------------------------------------------------------------------------
(* Arithmetic helpers *)

\* JavaScript's % : the result takes the sign of the dividend
JsRem(a, n) == IF a >= 0 THEN a % n ELSE -((-a) % n)

\* division rounding toward zero
TruncDiv(a, n) == IF a >= 0 THEN a \div n ELSE -((-a) \div n)

RECURSIVE SqrtBetween(_, _, _)
SqrtBetween(n, lo, hi) ==
    IF lo >= hi THEN lo
    ELSE LET mid == (lo + hi + 1) \div 2
         IN  IF mid * mid <= n THEN SqrtBetween(n, mid, hi)
             ELSE SqrtBetween(n, lo, mid - 1)

\* Math.sqrt on the fixed point grid (floor; exact on perfect squares)
Sqrt(n) == SqrtBetween(n, 0, 2000)

Max(a, b) == IF a >= b THEN a ELSE b
Min(a, b) == IF a <= b THEN a ELSE b

----------------------------------------------------------------------------
(* getRegionFromRotation *)

RegionLabels ==
    {"Africa / Europe", "Americas (East)", "Pacific", "Asia / Australia",
     "Atlantic"}

\* the remainder alone, left negative for a negative angle
RemainderOnly(yRotation) == JsRem(yRotation, PI * 2)

\* yRotation % (2 PI), plus 2 PI when negative
Normalized(yRotation) ==
    LET normalized == JsRem(yRotation, PI * 2)
    IN  IF normalized < 0 THEN normalized + PI * 2 ELSE normalized

\* deg = normalized * 180 / PI is compared with the bucket limits; the
\* comparison deg < b is written normalized * 180 < b * PI (no rounding).
DegLess(normalized, b) == normalized * 180 < b * PI
DegGreater(normalized, b) == normalized * 180 > b * PI

getRegionFromRotation(yRotation) ==
    LET n == Normalized(yRotation)
    IN  IF DegGreater(n, 330) \/ DegLess(n, 30) THEN "Africa / Europe"
        ELSE IF ~DegLess(n, 30) /\ DegLess(n, 120) THEN "Americas (East)"
        ELSE IF ~DegLess(n, 120) /\ DegLess(n, 210) THEN "Pacific"
        ELSE IF ~DegLess(n, 210) /\ DegLess(n, 300) THEN "Asia / Australia"
        ELSE "Atlantic"

----------------------------------------------------------------------------
(* Hand observations: result.landmarks[i] and result.handedness[i] *)

HandTypes == {"Left", "Right"}

\* the landmark indices renderLoop reads: thumb tip, index tip, palm centre
UsedLandmarks == {4, 8, 9}

thumbAt == <<400, 400>>

\* a landmark list with palm centre `palm` and the index tip at `off` from
\* the thumb tip
Landmarks(palm, off) ==
    (9 :> palm) @@ (4 :> thumbAt) @@
    (8 :> <<thumbAt[1] + off[1], thumbAt[2] + off[2]>>)

\* well-formed landmark lists: pinch distances 0.02, 0.03, 0.05 and 0.4
GoodLandmarks ==
    { Landmarks(<<500, 500>>, <<12, 16>>),
      Landmarks(<<250, 750>>, <<18, 24>>),
      Landmarks(<<0, 1000>>, <<30, 40>>),
      Landmarks(<<1000, 0>>, <<240, 320>>) }

\* a landmark list that lacks index m
Without(m) ==
    [i \in UsedLandmarks \ {m} |-> Landmarks(<<500, 500>>, <<12, 16>>)[i]]

Hand(h, lm) == [handedness |-> h, landmarks |-> lm]

GoodHands == { Hand(h, lm) : h \in HandTypes, lm \in GoodLandmarks }

BadHands ==
    { Hand("Left", Without(9)), Hand("Right", Without(4)),
      Hand("Left", Without(8)) }

Hands == GoodHands \cup BadHands

\* numHands: 2
Frames == {<<>>} \cup {<<a>> : a \in Hands} \cup {<<a, b>> : a \in Hands, b \in Hands}

\* window.innerWidth / window.innerHeight as a pair
Aspects == {<<1, 1>>, <<16, 9>>}

Malformed(hand) == ~(UsedLandmarks \subseteq DOMAIN hand.landmarks)

----------------------------------------------------------------------------
(* The per-hand part of renderLoop *)

\* the palm's x without the mirroring of the selfie view
visualXUnmirrored(hand) == hand.landmarks[9][1]

visualX(hand) == 1000 - hand.landmarks[9][1]
visualY(hand) == hand.landmarks[9][2]

pinchDist(hand) ==
    LET thumbTip == hand.landmarks[4]
        indexTip == hand.landmarks[8]
    IN  Sqrt((thumbTip[1] - indexTip[1]) * (thumbTip[1] - indexTip[1])
             + (thumbTip[2] - indexTip[2]) * (thumbTip[2] - indexTip[2]))

\* a pinch test that includes the threshold distance itself
isPinchingInclusive(hand) == pinchDist(hand) <= PinchThreshold

isPinching(hand) == pinchDist(hand) < PinchThreshold

vWidth(aspect) == (vHeight * aspect[1]) \div aspect[2]

worldPosition(hand, aspect) ==
    [x |-> (visualX(hand) - 500) * vWidth(aspect),
     y |-> -((visualY(hand) - 500) * vHeight)]

handRotation(hand) ==
    [x |-> (visualY(hand) - 500) * 400,
     y |-> (visualX(hand) - 500) * 600]

\* the scale without its upper limit
newScaleUnclamped(d) == Max(ScaleMin, 500 + d * 10)

newScale(d) == Max(ScaleMin, Min(ScaleMax, 500 + d * 10))

\* a "Left" branch whose idle hand puts the position back to its default
LeftHandResetting(acc, hand, aspect) ==
    IF isPinching(hand)
    THEN [acc EXCEPT !.statusString = "Left: dragging",
                     !.control.position = worldPosition(hand, aspect)]
    ELSE [acc EXCEPT !.statusString = "Left: idle (pinch to drag)",
                     !.control.position = [x |-> -2500000, y |-> 0]]

\* the "Left" branch
LeftHand(acc, hand, aspect) ==
    IF isPinching(hand)
    THEN [acc EXCEPT !.statusString = "Left: dragging",
                     !.control.position = worldPosition(hand, aspect)]
    ELSE [acc EXCEPT !.statusString = "Left: idle (pinch to drag)"]

\* the "Right" branch
RightHand(acc, hand) ==
    [acc EXCEPT !.statusString = "Right: rotate/scale",
                !.control.rotation = handRotation(hand),
                !.control.scale = newScale(pinchDist(hand))]

\* one iteration of the loop over result.landmarks; reading .x of a missing
\* landmark throws a TypeError before the hand has written anything
HandStep(acc, hand, aspect) ==
    IF Malformed(hand) THEN [acc EXCEPT !.threw = TRUE]
    ELSE IF hand.handedness = "Left" THEN LeftHand(acc, hand, aspect)
    ELSE IF hand.handedness = "Right" THEN RightHand(acc, hand)
    ELSE acc

RECURSIVE HandLoop(_, _, _, _)
HandLoop(acc, hands, i, aspect) ==
    IF i > Len(hands) \/ acc.threw THEN acc
    ELSE HandLoop(HandStep(acc, hands[i], aspect), hands, i + 1, aspect)

\* a frame effect in which the scale decays to its default without hands
ProcessFrameDecaying(control, hands, aspect) ==
    IF Len(hands) > 0
    THEN HandLoop([control |-> control, statusString |-> "", threw |-> FALSE],
                  hands, 1, aspect)
    ELSE [control |-> [control EXCEPT !.scale = 1000],
          statusString |-> "waiting for signal...", threw |-> FALSE]

\* lines 359-441: the effect of one detection result on ControlState and on
\* the status string
ProcessFrame(control, hands, aspect) ==
    IF Len(hands) > 0
    THEN HandLoop([control |-> control, statusString |-> "", threw |-> FALSE],
                  hands, 1, aspect)
    ELSE [control |-> control, statusString |-> "waiting for signal...",
          threw |-> FALSE]

----------------------------------------------------------------------------
(* Initial state: App and HolographicEarth are mounted, no effect has run *)

InitControl ==
    [rotation |-> [x |-> 0, y |-> 0],
     scale |-> 1000,
     position |-> [x |-> -2500000, y |-> 0],
     activeRegion |-> "ATLANTIC"]

\* <group position={[-2.5, 0, 0]}>; meshes start with scale 1, rotation 0.
\* Mesh scales are kept in 1/1000000 so that the rounding of a lerp step
\* stays far below one percent of any distance a scale travels
InitSmoothed ==
    [groupPosition |-> [x |-> -2500000, y |-> 0, z |-> 0],
     earthScale |-> 1000000,
     cloudsScale |-> 1000000,
     ringsScale |-> 1000000,
     earthRotation |-> [x |-> 0, y |-> 0],
     cloudsRotation |-> [x |-> 0, y |-> 0],
     ringsRotation |-> [y |-> 0, z |-> 0]]

Calls == 1..MaxLoads

InitApp ==
    /\ earthControl = InitControl
    /\ smoothed = InitSmoothed
    /\ elapsed = 0
    /\ activeRegion = "initializing..."
    /\ handDetected = FALSE
    /\ gestureStatus = "waiting for input..."
    /\ loading = TRUE
    /\ webcam = "idle"
    /\ pc = [c \in Calls |-> "idle"]
    /\ requestRef = 0
    /\ videoRef = TRUE
    /\ canvasRef = TRUE
    /\ tornDown = FALSE
    /\ result = <<>>

Init ==
    /\ InitApp
    /\ theta = 0
    /\ region = ""

----------------------------------------------------------------------------
(* App: the effect, startWebcam and the environment of the refs *)

\* useEffect body: startWebcam() runs up to its await of getUserMedia
StartWebcam(hasMediaDevices) ==
    /\ webcam = "idle"
    /\ ~tornDown
    /\ webcam' = IF hasMediaDevices THEN "awaitMedia" ELSE "done"
    /\ UNCHANGED <<earthControl, smoothed, elapsed, activeRegion, handDetected,
                   gestureStatus, loading, pc, requestRef, videoRef,
                   canvasRef, tornDown, result, theta, region>>

\* getUserMedia resolved: the listener is added when the video is mounted
StreamReady ==
    /\ webcam = "awaitMedia"
    /\ webcam' = IF videoRef THEN "listening" ELSE "done"
    /\ UNCHANGED <<earthControl, smoothed, elapsed, activeRegion, handDetected,
                   gestureStatus, loading, pc, requestRef, videoRef,
                   canvasRef, tornDown, result, theta, region>>

\* getUserMedia rejected: startWebcam ends with an unhandled rejection
StreamDenied ==
    /\ webcam = "awaitMedia"
    /\ webcam' = "failed"
    /\ UNCHANGED <<earthControl, smoothed, elapsed, activeRegion, handDetected,
                   gestureStatus, loading, pc, requestRef, videoRef,
                   canvasRef, tornDown, result, theta, region>>

\* the video fires "loadeddata": the listener starts predictWebcam call c
\* (calls are numbered in the order they start), which runs up to its
\* first await
LoadedData(c) ==
    /\ webcam = "listening"
    /\ pc[c] = "idle"
    /\ \A b \in Calls : b < c => pc[b] # "idle"
    /\ pc' = [pc EXCEPT ![c] = "awaitVision"]
    /\ UNCHANGED <<earthControl, smoothed, elapsed, activeRegion, handDetected,
                   gestureStatus, loading, webcam, requestRef, videoRef,
                   canvasRef, tornDown, result, theta, region>>

\* FilesetResolver.forVisionTasks resolved
VisionReady(c) ==
    /\ pc[c] = "awaitVision"
    /\ pc' = [pc EXCEPT ![c] = "awaitLandmarker"]
    /\ UNCHANGED <<earthControl, smoothed, elapsed, activeRegion, handDetected,
                   gestureStatus, loading, webcam, requestRef, videoRef,
                   canvasRef, tornDown, result, theta, region>>

\* either await of predictWebcam rejected: the call ends there
ModelLoadFailed(c) ==
    /\ pc[c] \in {"awaitVision", "awaitLandmarker"}
    /\ pc' = [pc EXCEPT ![c] = "failed"]
    /\ UNCHANGED <<earthControl, smoothed, elapsed, activeRegion, handDetected,
                   gestureStatus, loading, webcam, requestRef, videoRef,
                   canvasRef, tornDown, result, theta, region>>

\* React sets the refs of the video and canvas elements to null when it
\* removes them
DetachRefs ==
    /\ videoRef \/ canvasRef
    /\ videoRef' = FALSE
    /\ canvasRef' = FALSE
    /\ UNCHANGED <<earthControl, smoothed, elapsed, activeRegion, handDetected,
                   gestureStatus, loading, webcam, pc, requestRef, tornDown,
                   result, theta, region>>

\* the effect cleanup: if (requestRef.current) cancelAnimationFrame(...)
\* cancels the request the ref holds, when that request is still pending
Cleanup ==
    /\ webcam # "idle"
    /\ ~tornDown
    /\ tornDown' = TRUE
    /\ pc' = IF requestRef # 0 /\ pc[requestRef] = "scheduled"
             THEN [pc EXCEPT ![requestRef] = "cancelled"]
             ELSE pc
    /\ UNCHANGED <<earthControl, smoothed, elapsed, activeRegion, handDetected,
                   gestureStatus, loading, webcam, requestRef, videoRef,
                   canvasRef, result, theta, region>>

----------------------------------------------------------------------------
(* predictWebcam: renderLoop, the detection loop *)

\* one call of renderLoop by predictWebcam call c, with the detector
\* returning `hands`, the window having `aspect` and getContext("2d")
\* returning a context or null. An early return and a TypeError both end
\* the call before requestAnimationFrame. The FPS estimate (fps,
\* lastTimeRef) and the canvas drawing are written here and read by nothing
\* else in renderLoop; they are left out.
renderLoop(c, hands, aspect, ctx) ==
    IF ~videoRef \/ ~canvasRef \/ ~ctx
    THEN /\ pc' = [pc EXCEPT ![c] = "returned"]
         /\ UNCHANGED <<earthControl, handDetected, gestureStatus, requestRef,
                        result>>
    ELSE LET out == ProcessFrame(earthControl, hands, aspect)
         IN  /\ result' = <<hands>>
             /\ earthControl' = out.control
             /\ IF out.threw
                THEN /\ pc' = [pc EXCEPT ![c] = "threw"]
                     /\ UNCHANGED <<handDetected, gestureStatus, requestRef>>
                ELSE /\ handDetected' = (Len(hands) > 0)
                     /\ gestureStatus' = out.statusString
                     /\ requestRef' = c
                     /\ pc' = [pc EXCEPT ![c] = "scheduled"]

\* HandLandmarker.createFromOptions resolved: setLoading(false) and the
\* first, direct call of renderLoop
LandmarkerReady(c, hands, aspect, ctx) ==
    /\ pc[c] = "awaitLandmarker"
    /\ loading' = FALSE
    /\ renderLoop(c, hands, aspect, ctx)
    /\ UNCHANGED <<smoothed, elapsed, activeRegion, webcam, videoRef,
                   canvasRef, tornDown, theta, region>>

\* the browser runs the pending requestAnimationFrame callback of call c
AnimationFrame(c, hands, aspect, ctx) ==
    /\ pc[c] = "scheduled"
    /\ renderLoop(c, hands, aspect, ctx)
    /\ UNCHANGED <<smoothed, elapsed, activeRegion, loading, webcam, videoRef,
                   canvasRef, tornDown, theta, region>>

----------------------------------------------------------------------------
(* HolographicEarth: the useFrame callback, the render loop *)

\* a lerp component that moves by half the intended fraction
VectorLerpHalved(from, to, tenths) == from + TruncDiv((to - from) * tenths, 20)

\* Vector3.lerp component: this.x += (v.x - this.x) * alpha, alpha = tenths/10
VectorLerp(from, to, tenths) == from + TruncDiv((to - from) * tenths, 10)

\* THREE.MathUtils.lerp(x, y, t) = (1 - t) * x + t * y, t = tenths/10
MathLerp(x, y, tenths) == TruncDiv((10 - tenths) * x + tenths * y, 10)

\* Math.sin for small angles (third order), in 1/100000 rad
Sin(a) == a - (((a * a) \div 100000) * a) \div 600000

\* lines 40-63: the transforms after one tick. One render tick lasts 20 ms:
\* elapsed time t after n ticks is n / 50 s, so t * 0.05 rad = n * 100
\* units and t * 0.2 rad = n * 400 units
Smooth(s, control, n) ==
    LET targetScale == control.scale * 1000
        targetRotY == control.rotation.y
        targetRotX == control.rotation.x
        targetPos == control.position
        rotY == MathLerp(s.earthRotation.y, targetRotY, 1)
        rotX == MathLerp(s.earthRotation.x, targetRotX, 1)
    IN  [groupPosition |->
            [x |-> VectorLerp(s.groupPosition.x, targetPos.x, 2),
             y |-> VectorLerp(s.groupPosition.y, targetPos.y, 2),
             z |-> VectorLerp(s.groupPosition.z, 0, 2)],
         earthScale |-> VectorLerp(s.earthScale, targetScale, 1),
         cloudsScale |->
            VectorLerp(s.cloudsScale, (targetScale * 102) \div 100, 1),
         ringsScale |-> VectorLerp(s.ringsScale, targetScale, 1),
         earthRotation |-> [x |-> rotX, y |-> rotY],
         cloudsRotation |->
            [x |-> rotX, y |-> TruncDiv(rotY * 11, 10) + n * 100],
         ringsRotation |->
            [y |-> s.ringsRotation.y + 500,
             z |-> TruncDiv(Sin(n * 400), 10)]]

\* a render tick that also stores the region in ControlState.activeRegion
useFrameStoringRegion ==
    /\ elapsed < MaxRenderTicks
    /\ ~tornDown
    /\ elapsed' = elapsed + 1
    /\ smoothed' = Smooth(smoothed, earthControl, elapsed')
    /\ activeRegion' = getRegionFromRotation(smoothed'.earthRotation.y)
    /\ earthControl' = [earthControl EXCEPT !.activeRegion = activeRegion']
    /\ UNCHANGED <<handDetected, gestureStatus, loading, webcam, pc,
                   requestRef, videoRef, canvasRef, tornDown, result, theta,
                   region>>

\* the useFrame callback while the scene is mounted (with a mesh ref still
\* null it returns at once and changes nothing), in a behaviour of at most
\* `limit` render ticks
useFrameUpTo(limit) ==
    /\ elapsed < limit
    /\ ~tornDown
    /\ elapsed' = elapsed + 1
    /\ smoothed' = Smooth(smoothed, earthControl, elapsed')
    /\ activeRegion' = getRegionFromRotation(smoothed'.earthRotation.y)
    /\ UNCHANGED <<earthControl, handDetected, gestureStatus, loading, webcam,
                   pc, requestRef, videoRef, canvasRef, tornDown, result,
                   theta, region>>

useFrame == useFrameUpTo(MaxRenderTicks)

----------------------------------------------------------------------------
(* The application *)

\* detector results and window shapes fed to the whole application
SessionHands ==
    { Hand("Left", Landmarks(<<250, 750>>, <<18, 24>>)),
      Hand("Right", Landmarks(<<1000, 0>>, <<240, 320>>)),
      Hand("Left", Without(9)) }

SessionFrames == {<<>>} \cup {<<a>> : a \in SessionHands}

SessionAspects == {<<16, 9>>}

Next ==
    \/ \E m \in BOOLEAN : StartWebcam(m)
    \/ StreamReady
    \/ StreamDenied
    \/ \E c \in Calls : LoadedData(c)
    \/ \E c \in Calls : VisionReady(c)
    \/ \E c \in Calls : ModelLoadFailed(c)
    \/ \E c \in Calls, hands \in SessionFrames, aspect \in SessionAspects :
          LandmarkerReady(c, hands, aspect, TRUE)
    \/ \E c \in Calls, hands \in SessionFrames, aspect \in SessionAspects :
          AnimationFrame(c, hands, aspect, TRUE)
    \/ \E c \in Calls : LandmarkerReady(c, <<>>, <<1, 1>>, FALSE)
    \/ \E c \in Calls : AnimationFrame(c, <<>>, <<1, 1>>, FALSE)
    \/ useFrame
    \/ DetachRefs
    \/ Cleanup

Spec == Init /\ [][Next]_vars

----------------------------------------------------------------------------
(* The detection loop of one predictWebcam call, fed every frame of Frames *)

NextGesture ==
    \/ StartWebcam(TRUE)
    \/ StreamReady
    \/ LoadedData(1)
    \/ VisionReady(1)
    \/ \E hands \in Frames, aspect \in Aspects :
          LandmarkerReady(1, hands, aspect, TRUE)
    \/ \E hands \in Frames, aspect \in Aspects :
          AnimationFrame(1, hands, aspect, TRUE)

SpecGesture == Init /\ [][NextGesture]_vars

----------------------------------------------------------------------------
(* getRegionFromRotation called on its own *)

\* angles of one unit: every 15 degrees of two turns either way, and the
\* angles one unit below and above each of them
Thetas ==
    { k * (PI \div 12) + e : k \in -24..24, e \in {-1, 0, 1} }

InitRegion ==
    /\ InitApp
    /\ theta \in Thetas
    /\ region = ""

\* const currentRegion = getRegionFromRotation(theta)
RegionCall ==
    /\ region' = getRegionFromRotation(theta)
    /\ UNCHANGED <<theta, earthControl, smoothed, elapsed, activeRegion,
                   handDetected, gestureStatus, loading, webcam, pc,
                   requestRef, videoRef, canvasRef, tornDown, result>>

\* the caller adds k full turns to the angle
FullTurns(k) ==
    /\ theta + k * 2 * PI <= (MaxTurns + 1) * 2 * PI
    /\ theta + k * 2 * PI >= -((MaxTurns + 1) * 2 * PI)
    /\ theta' = theta + k * 2 * PI
    /\ region' = ""
    /\ UNCHANGED <<earthControl, smoothed, elapsed, activeRegion,
                   handDetected, gestureStatus, loading, webcam, pc,
                   requestRef, videoRef, canvasRef, tornDown, result>>

NextRegion ==
    \/ RegionCall
    \/ \E k \in {-1, 1} : FullTurns(k)

SpecRegion == InitRegion /\ [][NextRegion]_vars

----------------------------------------------------------------------------
(* Properties of the detection loop *)

\* the detection result the step hands to renderLoop, read off the
\* post-state (<<>> when the step returned before detecting)
Detected == IF result' = <<>> THEN <<>> ELSE result'[1]

\* this step is a renderLoop call of predictWebcam call c that got past its
\* early returns and processed the result Detected with window shape aspect
DetectionTick(c, aspect) ==
    /\ result' # <<>>
    /\ \/ LandmarkerReady(c, Detected, aspect, TRUE)
       \/ AnimationFrame(c, Detected, aspect, TRUE)

WellFormed(hand) == UsedLandmarks \subseteq DOMAIN hand.landmarks

\* squared thumb-index distance of a well-formed hand, in 1/1000000
PinchSquared(hand) ==
    (hand.landmarks[4][1] - hand.landmarks[8][1])
        * (hand.landmarks[4][1] - hand.landmarks[8][1])
    + (hand.landmarks[4][2] - hand.landmarks[8][2])
        * (hand.landmarks[4][2] - hand.landmarks[8][2])

\* the frame holds a well-formed Left hand with pinch distance below 0.05
HasPinchingLeft(hands) ==
    \E i \in 1..Len(hands) :
        /\ hands[i].handedness = "Left"
        /\ WellFormed(hands[i])
        /\ PinchSquared(hands[i]) < 50 * 50

HasRight(hands) ==
    \E i \in 1..Len(hands) : hands[i].handedness = "Right"

\* C1: in every reachable state ControlState.scale lies in [0.5, 3.5].
C1_ScaleInRange ==
    earthControl.scale >= 500 /\ earthControl.scale <= 3500

\* a Right hand with pinch distance 0.4 was processed and scale was clamped
\* to 3.5
C1_Witness ==
    /\ result = << <<Hand("Right", Landmarks(<<1000, 0>>, <<240, 320>>))>> >>
    /\ earthControl.scale = 3500

\* C2: a detection frame in which no hand is detected leaves every field of
\* ControlState unchanged.
C2_NoHandsNoChange ==
    [][ \A aspect \in Aspects :
          (DetectionTick(1, aspect) /\ Detected = <<>>)
              => earthControl' = earthControl ]_vars

\* a no-hand frame was processed while ControlState held values set by
\* earlier gestures
C2_Witness ==
    /\ result = << <<>> >>
    /\ gestureStatus = "waiting for signal..."
    /\ earthControl.scale = 3500
    /\ earthControl.position.x # InitControl.position.x
    /\ earthControl.rotation.y = -300000

\* C3: position changes only if the frame holds a Left hand pinching below
\* 0.05, rotation and scale change only if the frame holds a Right hand; a
\* lone Left hand that is not pinching changes nothing and a lone Right hand
\* never changes position.
C3_RoleRouting ==
    [][ \A aspect \in Aspects :
          DetectionTick(1, aspect) =>
            /\ earthControl'.position # earthControl.position
                  => HasPinchingLeft(Detected)
            /\ (\/ earthControl'.rotation # earthControl.rotation
                \/ earthControl'.scale # earthControl.scale)
                  => HasRight(Detected)
            /\ earthControl'.activeRegion = earthControl.activeRegion
            /\ ~HasPinchingLeft(Detected) /\ ~HasRight(Detected)
                  => earthControl' = earthControl
            /\ (\A i \in 1..Len(Detected) : Detected[i].handedness = "Right")
                  => earthControl'.position = earthControl.position ]_vars

\* a Left hand at exactly the threshold distance 0.05 was processed as idle,
\* at a palm position that differs from the position ControlState keeps
C3_Witness ==
    /\ result = << <<Hand("Left", Landmarks(<<0, 1000>>, <<30, 40>>))>> >>
    /\ gestureStatus = "Left: idle (pinch to drag)"
    /\ earthControl.position = [x |-> 0, y |-> 0]
    /\ earthControl.scale = 3500

\* clamp(0.5 + 10 d, 0.5, 3.5) for a squared distance dd, by its definition
ClampedScale(dd) ==
    LET d == CHOOSE r \in 0..1500 : r * r <= dd /\ dd < (r + 1) * (r + 1)
        v == 500 + 10 * d
    IN  IF v < 500 THEN 500 ELSE IF v > 3500 THEN 3500 ELSE v

\* C4: after a frame whose only hand is a Right hand with palm (px, py) and
\* pinch distance d: rotation.y = ((1 - px) - 0.5) * 6, rotation.x =
\* (py - 0.5) * 4, scale = clamp(0.5 + 10 d, 0.5, 3.5), so rotation.y is in
\* [-3, 3] and rotation.x in [-2, 2].
C4_RightHandMapping ==
    [][ \A aspect \in Aspects :
          (/\ DetectionTick(1, aspect)
           /\ Len(Detected) = 1
           /\ Detected[1].handedness = "Right"
           /\ WellFormed(Detected[1]))
          => LET px == Detected[1].landmarks[9][1]
                 py == Detected[1].landmarks[9][2]
             IN  /\ earthControl'.rotation.y = ((1000 - px) - 500) * 600
                 /\ earthControl'.rotation.x = (py - 500) * 400
                 /\ earthControl'.scale = ClampedScale(PinchSquared(Detected[1]))
                 /\ earthControl'.rotation.y \in -300000..300000
                 /\ earthControl'.rotation.x \in -200000..200000 ]_vars

\* a pinching Right hand (distance 0.03) at palm (0.25, 0.75) was processed:
\* rotation and scale follow it although it pinches
C4_Witness ==
    /\ result = << <<Hand("Right", Landmarks(<<250, 750>>, <<18, 24>>))>> >>
    /\ earthControl.rotation = [x |-> 100000, y |-> 150000]
    /\ earthControl.scale = 800

\* the frame holds two well-formed observations with the same handedness
Duplicate(hands) ==
    /\ Len(hands) = 2
    /\ hands[1].handedness = hands[2].handedness
    /\ WellFormed(hands[1])
    /\ WellFormed(hands[2])

\* C5 as claimed: with two observations of the same handedness in a frame,
\* ControlState after the frame is what processing only the later one gives.
C5_LastWriteWins ==
    [][ \A aspect \in Aspects :
          (DetectionTick(1, aspect) /\ Duplicate(Detected))
          => earthControl' =
                ProcessFrame(earthControl, <<Detected[2]>>, aspect).control ]_vars

\* C5 amended: with two observations of the same handedness in a frame,
\* ControlState after the frame is what processing only the later one gives
\* when they are Right hands or the later Left hand pinches; when the later
\* Left hand does not pinch it is what processing only the earlier one gives.
C5_LastWriterWins ==
    [][ \A aspect \in Aspects :
          (DetectionTick(1, aspect) /\ Duplicate(Detected))
          => LET later ==
                    ProcessFrame(earthControl, <<Detected[2]>>, aspect).control
                 earlier ==
                    ProcessFrame(earthControl, <<Detected[1]>>, aspect).control
                 laterWrites ==
                    \/ Detected[2].handedness = "Right"
                    \/ PinchSquared(Detected[2]) < 50 * 50
             IN  earthControl' = IF laterWrites THEN later ELSE earlier ]_vars

\* a frame with a pinching Left hand followed by an idle Left hand was
\* processed, and position is the one the earlier hand dragged to
C5_Witness ==
    /\ result = << <<Hand("Left", Landmarks(<<250, 750>>, <<18, 24>>)),
                     Hand("Left", Landmarks(<<0, 1000>>, <<30, 40>>))>> >>
    /\ earthControl.position.y = -1035000
    /\ earthControl.position.x # 0

\* the frame holds one malformed observation and one well-formed one
OneMalformed(hands) ==
    /\ Len(hands) = 2
    /\ \E i \in 1..2 : ~WellFormed(hands[i]) /\ WellFormed(hands[3 - i])

TheWellFormed(hands) == IF WellFormed(hands[1]) THEN hands[1] ELSE hands[2]

\* C9 as claimed: a malformed observation is skipped; the other hand of the
\* frame has its normal effect and the frame's processing is not aborted.
C9_MalformedSkipped ==
    [][ \A aspect \in Aspects :
          (DetectionTick(1, aspect) /\ OneMalformed(Detected))
          => /\ earthControl' =
                  ProcessFrame(earthControl, <<TheWellFormed(Detected)>>,
                               aspect).control
             /\ pc'[1] = "scheduled"
             /\ handDetected' ]_vars

----------------------------------------------------------------------------
(* Properties of the whole application *)

\* this step is a renderLoop call of some predictWebcam call
AnyDetectionTick ==
    \E c \in Calls, aspect \in Aspects, ctx \in BOOLEAN :
        \/ LandmarkerReady(c, Detected, aspect, ctx)
        \/ AnimationFrame(c, Detected, aspect, ctx)

\* C6: a render tick never changes a field of ControlState and a detection
\* tick never changes a field of SmoothedControlState.
C6_SingleWriterSingleReader ==
    [][ /\ useFrame => earthControl' = earthControl
        /\ AnyDetectionTick => smoothed' = smoothed ]_vars

\* both loops have run: a detection tick has set ControlState and render
\* ticks have moved the transforms toward it
C6_Witness ==
    /\ elapsed = 2
    /\ result = << <<Hand("Right", Landmarks(<<1000, 0>>, <<240, 320>>))>> >>
    /\ earthControl.scale = 3500
    /\ smoothed.earthScale > 1000000
    /\ smoothed.earthRotation.y < 0

\* predictWebcam calls whose renderLoop is waiting in requestAnimationFrame
Pending == {c \in Calls : pc[c] = "scheduled"}

\* C7 as claimed: however often loadeddata fires, at most one detection
\* callback is pending at any time.
C7_OnePending == Cardinality(Pending) <= 1

----------------------------------------------------------------------------
(* Properties of getRegionFromRotation *)

\* `deg` degrees in angle units (deg a multiple of 15)
Degrees(deg) == (deg * PI) \div 180

\* the angle is `deg` degrees plus a whole number of turns
IsDegrees(angle, deg) == (angle - Degrees(deg)) % (2 * PI) = 0

\* C10: the label of theta is one of the five labels, it equals the label
\* of theta + 2 PI k for every integer k (so 0 and 2 PI share a label), and
\* 30, 120, 210 and 300 degrees each belong to the bucket starting there
\* (the angle one unit below belongs to the bucket before).
C10_RegionBuckets ==
    /\ region # "" =>
         /\ region \in RegionLabels
         /\ \A k \in -MaxTurns..MaxTurns :
                getRegionFromRotation(theta + k * 2 * PI) = region
         /\ IsDegrees(theta, 0) => region = getRegionFromRotation(2 * PI)
         /\ IsDegrees(theta, 30) => region = "Americas (East)"
         /\ IsDegrees(theta + 1, 30) => region = "Africa / Europe"
         /\ IsDegrees(theta, 120) => region = "Pacific"
         /\ IsDegrees(theta + 1, 120) => region = "Americas (East)"
         /\ IsDegrees(theta, 210) => region = "Asia / Australia"
         /\ IsDegrees(theta + 1, 210) => region = "Pacific"
         /\ IsDegrees(theta, 300) => region = "Atlantic"
         /\ IsDegrees(theta + 1, 300) => region = "Asia / Australia"
    /\ getRegionFromRotation(0) = "Africa / Europe"

\* the label of -330 degrees, a negative angle on the 30 degree boundary,
\* was computed
C10_Witness ==
    /\ theta = -Degrees(330)
    /\ region = "Americas (East)"

----------------------------------------------------------------------------
(* Smoothing toward a held target: gestures set ControlState before the    *)
(* first render tick, afterwards the detector only reports frames without  *)
(* hands while the render loop runs                                        *)

NextSmooth ==
    \/ StartWebcam(TRUE)
    \/ StreamReady
    \/ LoadedData(1)
    \/ VisionReady(1)
    \/ /\ elapsed = 0
       /\ \E hands \in Frames, aspect \in Aspects :
             \/ LandmarkerReady(1, hands, aspect, TRUE)
             \/ AnimationFrame(1, hands, aspect, TRUE)
    \/ /\ elapsed > 0
       /\ \/ LandmarkerReady(1, <<>>, <<1, 1>>, TRUE)
          \/ AnimationFrame(1, <<>>, <<1, 1>>, TRUE)
    \/ useFrameUpTo(MaxSmoothTicks)

SpecSmooth == Init /\ [][NextSmooth]_vars

Dist(a, b) == IF a >= b THEN a - b ELSE b - a

\* v lies between a and b, ends included
Between(v, a, b) == (a <= v /\ v <= b) \/ (b <= v /\ v <= a)

\* the smoothed fields, each with its target in ControlState and the
\* divisor 1/alpha of its lerp
SmoothedFields(s, control) ==
    << [now |-> s.groupPosition.x, target |-> control.position.x, inv |-> 5],
       [now |-> s.groupPosition.y, target |-> control.position.y, inv |-> 5],
       [now |-> s.earthScale, target |-> control.scale * 1000, inv |-> 10],
       [now |-> s.ringsScale, target |-> control.scale * 1000, inv |-> 10],
       [now |-> s.cloudsScale, target |-> control.scale * 1020, inv |-> 10],
       [now |-> s.earthRotation.x, target |-> control.rotation.x, inv |-> 10],
       [now |-> s.earthRotation.y, target |-> control.rotation.y, inv |-> 10] >>

\* C11: while ControlState is held constant, each render tick moves every
\* smoothed field (position with alpha 0.2, scale and rotation with alpha
\* 0.1) toward its target without overshooting, so its distance to the
\* target never increases (and decreases while it exceeds the rounding of
\* one step), and after 50 render ticks the remaining distance of the
\* alpha-0.1 fields is below 1% of the initial distance.
C11_SmoothingConverges ==
    [][ useFrameUpTo(MaxSmoothTicks) =>
          \A i \in 1..7 :
            LET before == SmoothedFields(smoothed, earthControl)[i]
                after == SmoothedFields(smoothed', earthControl)[i]
                start == SmoothedFields(InitSmoothed, earthControl)[i]
            IN  /\ Between(after.now, before.now, before.target)
                /\ Dist(after.now, after.target)
                      <= Dist(before.now, before.target)
                /\ Dist(before.now, before.target) >= before.inv
                      => Dist(after.now, after.target)
                            < Dist(before.now, before.target)
                /\ (elapsed' >= 50 /\ after.inv = 10)
                      => \/ Dist(after.now, after.target) * 100
                               < Dist(start.now, start.target)
                         \/ after.now = after.target ]_vars

\* 50 render ticks have run toward scale 3.5 and rotation.y -3 set by a
\* Right hand, with frames without hands in between; the earth's scale has
\* covered more than 99% of the way from 1 and has not passed 3.5
C11_Witness ==
    /\ elapsed = 50
    /\ result = << <<>> >>
    /\ earthControl.scale = 3500
    /\ earthControl.rotation.y = -300000
    /\ smoothed.earthScale > 3475000
    /\ smoothed.earthScale <= 3500000
    /\ smoothed.earthRotation.y < -297000

----------------------------------------------------------------------------
(* Liveness of the detection loop *)

\* C12 as claimed: while the session has not been torn down, every
\* detection-loop iteration, whatever it finds (no hands, hands, or the
\* video, the canvas or the 2D context missing), schedules exactly one next
\* iteration. Stated here for the iterations that do not end in a
\* TypeError, which already refutes it.
C12_EveryIterationReschedules ==
    [][ \A c \in Calls, aspect \in Aspects, ctx \in BOOLEAN :
          (/\ ~tornDown
           /\ \/ LandmarkerReady(c, Detected, aspect, ctx)
              \/ AnimationFrame(c, Detected, aspect, ctx)
           /\ pc'[c] # "threw")
          => pc'[c] = "scheduled" /\ requestRef' = c ]_vars

====
